---- MODULE Spec2Model ----
(***************************************************************************)
(* ProjectBot (docs-site/src/components/ProjectBot.tsx): the FAQ matcher   *)
(* findAnswer and the chat widget's session state machine.                 *)
(*                                                                         *)
(* Text is a JavaScript string: a sequence of UTF-16 code units.  An ASCII *)
(* unit is the one-character string; a unit outside ASCII is written       *)
(* "uXXXX" (its hexadecimal code) and is still one element of the sequence;*)
(* the backquote, which the TLA+ lexer does not accept in a string, is     *)
(* written "u0060" in the same way.                                        *)
(***************************************************************************)
EXTENDS Integers, Sequences, FiniteSets, TLC

VARIABLES
    mounted,           \* the component instance exists (between mount and unmount)
    open,              \* useState(false)
    input,             \* useState("")
    history,           \* useState([]): sequence of {q, a, timestamp}
    isTyping,          \* useState(false)
    fullscreen,        \* useState(false)
    bodyFullscreen,    \* document.body carries the class 'bot-fullscreen'
    scrollTop,         \* historyRef.current.scrollTop, counted in Turns from the top
    focusRequested,    \* inputRef.current.focus() was called on the text field now rendered
    timers,            \* pending setTimeout callbacks, in scheduling order
    nextTimerId,       \* handle the next setTimeout call returns
    now,               \* the clock, in the time units of the delay
    staleCompletions,  \* timer callbacks that ran after the unmount
    lastOp,            \* the handler that ran last, with its argument
    mQuery,            \* matcher harness: the query
    mKb,               \* matcher harness: the knowledge base
    mResult,           \* matcher harness: the value findAnswer returned
    fAnswer,           \* formatter harness: the answer text
    fBlocks            \* formatter harness: the __html of the blocks formatAnswer returned

vars == << mounted, open, input, history, isTyping, fullscreen, bodyFullscreen,
           scrollTop, focusRequested, timers, nextTimerId, now, staleCompletions,
           lastOp,
           mQuery, mKb, mResult, fAnswer, fBlocks >>

sessionVars == << mounted, open, input, history, isTyping, fullscreen,
                  bodyFullscreen, scrollTop, focusRequested, timers, nextTimerId, now,
                  staleCompletions, lastOp >>

matcherVars == << mQuery, mKb, mResult >>

formatterVars == << fAnswer, fBlocks >>

(***************************************************************************)
(* Bounds of the model.                                                    *)
(***************************************************************************)
MaxSubmits == 2    \* setTimeout calls in one behaviour
MaxQueryLen == 4   \* length of the generated queries
MaxEntries == 2    \* entries of the generated knowledge bases
MaxPieces == 4     \* pieces of the generated answer texts

(***************************************************************************)
(* String primitives.                                                      *)
(***************************************************************************)
UpperToLower ==
    [A |-> "a", B |-> "b", C |-> "c", D |-> "d", E |-> "e", F |-> "f", G |-> "g",
     H |-> "h", I |-> "i", J |-> "j", K |-> "k", L |-> "l", M |-> "m", N |-> "n",
     O |-> "o", P |-> "p", Q |-> "q", R |-> "r", S |-> "s", T |-> "t", U |-> "u",
     V |-> "v", W |-> "w", X |-> "x", Y |-> "y", Z |-> "z"]

\* the lower-case form of one unit: a letter A-Z has a one-unit form; the
\* capital I with dot above (U+0130) is the one unit whose form is two units,
\* i followed by the combining dot (U+0307); other units are kept
LowerOfUnit(c) ==
    IF c \in DOMAIN UpperToLower THEN << UpperToLower[c] >>
    ELSE IF c = "u0130" THEN << "i", "u0307" >>
    ELSE << c >>

RECURSIVE toLowerCase(_)
\* String.prototype.toLowerCase
toLowerCase(s) ==
    IF s = << >> THEN << >> ELSE LowerOfUnit(Head(s)) \o toLowerCase(Tail(s))

\* String.prototype.includes
includes(s, sub) ==
    \E i \in 0..(Len(s) - Len(sub)) : SubSeq(s, i + 1, i + Len(sub)) = sub

WhiteSpace == {" ", "\n", "\t", "\r"}

\* String.prototype.trim
trim(s) ==
    LET keep == {i \in 1..Len(s) : s[i] \notin WhiteSpace}
    IN  IF keep = {} THEN << >>
        ELSE SubSeq(s, CHOOSE i \in keep : \A j \in keep : i <= j,
                       CHOOSE i \in keep : \A j \in keep : i >= j)

(***************************************************************************)
(* The knowledge base: const faq (ProjectBot.tsx, lines 12-55).            *)
(***************************************************************************)
\* "How do I install KubeStellar A2A?"
faqQ1 ==
    << "H", "o", "w", " ", "d", "o", " ", "I", " ", "i", "n", "s", "t", "a", "l", "l",
       " ", "K", "u", "b", "e", "S", "t", "e", "l", "l", "a", "r", " ", "A", "2", "A",
       "?" >>

\* ["install", "installation", "setup", "getting started"]
faqKeywords1 ==
    << << "i", "n", "s", "t", "a", "l", "l" >>,
       << "i", "n", "s", "t", "a", "l", "l", "a", "t", "i", "o", "n" >>,
       << "s", "e", "t", "u", "p" >>,
       << "g", "e", "t", "t", "i", "n", "g", " ", "s", "t", "a", "r", "t", "e", "d" >> >>

faqA1 ==
    << "Y", "o", "u", " ", "c", "a", "n", " ", "i", "n", "s", "t", "a", "l", "l", " ",
       "K", "u", "b", "e", "S", "t", "e", "l", "l", "a", "r", " ", "A", "2", "A", " ",
       "u", "s", "i", "n", "g", " ", "*", "*", "u", "v", "*", "*", " ", "(", "r", "e",
       "c", "o", "m", "m", "e", "n", "d", "e", "d", ")", " ", "o", "r", " ", "p", "i",
       "p", ":", "\n", "\n", "u0060", "u0060", "u0060", "b", "a", "s", "h", "\n", "#", " ", "I", "n",
       "s", "t", "a", "l", "l", " ", "u", "v", "\n", "c", "u", "r", "l", " ", "-", "L",
       "s", "S", "f", " ", "h", "t", "t", "p", "s", ":", "/", "/", "a", "s", "t", "r",
       "a", "l", ".", "s", "h", "/", "u", "v", "/", "i", "n", "s", "t", "a", "l", "l",
       ".", "s", "h", " ", "|", " ", "s", "h", "\n", "\n", "#", " ", "C", "l", "o", "n",
       "e", " ", "a", "n", "d", " ", "i", "n", "s", "t", "a", "l", "l", "\n", "g", "i",
       "t", " ", "c", "l", "o", "n", "e", " ", "h", "t", "t", "p", "s", ":", "/", "/",
       "g", "i", "t", "h", "u", "b", ".", "c", "o", "m", "/", "k", "u", "b", "e", "s",
       "t", "e", "l", "l", "a", "r", "/", "a", "2", "a", ".", "g", "i", "t", "\n", "c",
       "d", " ", "a", "2", "a", "\n", "u", "v", " ", "p", "i", "p", " ", "i", "n", "s",
       "t", "a", "l", "l", " ", "-", "e", " ", "\"", ".", "[", "d", "e", "v", "]", "\"",
       "\n", "u0060", "u0060", "u0060", "\n", "\n", "F", "o", "r", " ", "d", "e", "t", "a", "i", "l",
       "e", "d", " ", "i", "n", "s", "t", "r", "u", "c", "t", "i", "o", "n", "s", ",",
       " ", "c", "h", "e", "c", "k", " ", "o", "u", "r", " ", "[", "I", "n", "s", "t",
       "a", "l", "l", "a", "t", "i", "o", "n", " ", "G", "u", "i", "d", "e", "]", "(",
       "/", "a", "2", "a", "/", "d", "o", "c", "s", "/", "g", "e", "t", "t", "i", "n",
       "g", "-", "s", "t", "a", "r", "t", "e", "d", "/", "i", "n", "s", "t", "a", "l",
       "l", "a", "t", "i", "o", "n", ")", "." >>

\* "What is KubeStellar A2A?"
faqQ2 ==
    << "W", "h", "a", "t", " ", "i", "s", " ", "K", "u", "b", "e", "S", "t", "e", "l",
       "l", "a", "r", " ", "A", "2", "A", "?" >>

\* ["what is", "about", "overview", "definition"]
faqKeywords2 ==
    << << "w", "h", "a", "t", " ", "i", "s" >>,
       << "a", "b", "o", "u", "t" >>,
       << "o", "v", "e", "r", "v", "i", "e", "w" >>,
       << "d", "e", "f", "i", "n", "i", "t", "i", "o", "n" >> >>

faqA2 ==
    << "*", "*", "K", "u", "b", "e", "S", "t", "e", "l", "l", "a", "r", " ", "A", "2",
       "A", "*", "*", " ", "i", "s", " ", "a", "n", " ", "i", "n", "t", "e", "l", "l",
       "i", "g", "e", "n", "t", " ", "o", "r", "c", "h", "e", "s", "t", "r", "a", "t",
       "o", "r", " ", "f", "o", "r", " ", "m", "u", "l", "t", "i", "-", "c", "l", "u",
       "s", "t", "e", "r", " ", "K", "u", "b", "e", "r", "n", "e", "t", "e", "s", " ",
       "o", "p", "e", "r", "a", "t", "i", "o", "n", "s", ".", " ", "I", "t", " ", "p",
       "r", "o", "v", "i", "d", "e", "s", ":", "\n", "\n", "-", " ", "uD83E", "uDD16", " ", "*",
       "*", "A", "I", "-", "p", "o", "w", "e", "r", "e", "d", " ", "a", "u", "t", "o",
       "m", "a", "t", "i", "o", "n", "*", "*", " ", "w", "i", "t", "h", " ", "n", "a",
       "t", "u", "r", "a", "l", " ", "l", "a", "n", "g", "u", "a", "g", "e", " ", "i",
       "n", "t", "e", "r", "f", "a", "c", "e", "s", "\n", "-", " ", "uD83C", "uDF10", " ", "*",
       "*", "M", "u", "l", "t", "i", "-", "c", "l", "u", "s", "t", "e", "r", " ", "m",
       "a", "n", "a", "g", "e", "m", "e", "n", "t", "*", "*", " ", "w", "i", "t", "h",
       " ", "a", "d", "v", "a", "n", "c", "e", "d", " ", "t", "a", "r", "g", "e", "t",
       "i", "n", "g", "\n", "-", " ", "u2699", "uFE0F", " ", "*", "*", "K", "u", "b", "e", "S",
       "t", "e", "l", "l", "a", "r", " ", "i", "n", "t", "e", "g", "r", "a", "t", "i",
       "o", "n", "*", "*", " ", "w", "i", "t", "h", " ", "W", "D", "S", ",", " ", "I",
       "T", "S", ",", " ", "a", "n", "d", " ", "b", "i", "n", "d", "i", "n", "g", " ",
       "p", "o", "l", "i", "c", "i", "e", "s", "\n", "-", " ", "uD83D", "uDCAC", " ", "*", "*",
       "I", "n", "t", "e", "r", "a", "c", "t", "i", "v", "e", " ", "a", "g", "e", "n",
       "t", " ", "m", "o", "d", "e", "*", "*", " ", "f", "o", "r", " ", "c", "o", "n",
       "v", "e", "r", "s", "a", "t", "i", "o", "n", "a", "l", " ", "m", "a", "n", "a",
       "g", "e", "m", "e", "n", "t" >>

\* "How do I use the AI agent?"
faqQ3 ==
    << "H", "o", "w", " ", "d", "o", " ", "I", " ", "u", "s", "e", " ", "t", "h", "e",
       " ", "A", "I", " ", "a", "g", "e", "n", "t", "?" >>

\* ["agent", "ai", "natural language", "chat", "conversation"]
faqKeywords3 ==
    << << "a", "g", "e", "n", "t" >>,
       << "a", "i" >>,
       << "n", "a", "t", "u", "r", "a", "l", " ", "l", "a", "n", "g", "u", "a", "g", "e" >>,
       << "c", "h", "a", "t" >>,
       << "c", "o", "n", "v", "e", "r", "s", "a", "t", "i", "o", "n" >> >>

faqA3 ==
    << "S", "t", "a", "r", "t", " ", "t", "h", "e", " ", "A", "I", " ", "a", "g", "e",
       "n", "t", " ", "w", "i", "t", "h", ":", "\n", "\n", "u0060", "u0060", "u0060", "b", "a", "s",
       "h", "\n", "#", " ", "S", "e", "t", " ", "y", "o", "u", "r", " ", "A", "P", "I",
       " ", "k", "e", "y", " ", "f", "i", "r", "s", "t", "\n", "u", "v", " ", "r", "u",
       "n", " ", "k", "u", "b", "e", "s", "t", "e", "l", "l", "a", "r", " ", "c", "o",
       "n", "f", "i", "g", " ", "s", "e", "t", "-", "k", "e", "y", " ", "g", "e", "m",
       "i", "n", "i", " ", "Y", "O", "U", "R", "_", "G", "E", "M", "I", "N", "I", "_",
       "A", "P", "I", "_", "K", "E", "Y", "\n", "\n", "#", " ", "S", "t", "a", "r", "t",
       " ", "a", "g", "e", "n", "t", "\n", "u", "v", " ", "r", "u", "n", " ", "k", "u",
       "b", "e", "s", "t", "e", "l", "l", "a", "r", " ", "a", "g", "e", "n", "t", "\n",
       "u0060", "u0060", "u0060", "\n", "\n", "T", "h", "e", "n", " ", "y", "o", "u", " ", "c", "a",
       "n", " ", "u", "s", "e", " ", "n", "a", "t", "u", "r", "a", "l", " ", "l", "a",
       "n", "g", "u", "a", "g", "e", " ", "c", "o", "m", "m", "a", "n", "d", "s", " ",
       "l", "i", "k", "e", ":", "\n", "-", " ", "\"", "D", "e", "p", "l", "o", "y", " ",
       "n", "g", "i", "n", "x", " ", "t", "o", " ", "a", "l", "l", " ", "p", "r", "o",
       "d", "u", "c", "t", "i", "o", "n", " ", "c", "l", "u", "s", "t", "e", "r", "s",
       "\"", "\n", "-", " ", "\"", "S", "h", "o", "w", " ", "m", "e", " ", "c", "l", "u",
       "s", "t", "e", "r", " ", "h", "e", "a", "l", "t", "h", " ", "s", "t", "a", "t",
       "u", "s", "\"", "\n", "-", " ", "\"", "L", "i", "s", "t", " ", "a", "l", "l", " ",
       "p", "o", "d", "s", " ", "a", "c", "r", "o", "s", "s", " ", "n", "a", "m", "e",
       "s", "p", "a", "c", "e", "s", "\"" >>

\* "Where can I find the quick start guide?"
faqQ4 ==
    << "W", "h", "e", "r", "e", " ", "c", "a", "n", " ", "I", " ", "f", "i", "n", "d",
       " ", "t", "h", "e", " ", "q", "u", "i", "c", "k", " ", "s", "t", "a", "r", "t",
       " ", "g", "u", "i", "d", "e", "?" >>

\* ["quick start", "tutorial", "getting started", "guide"]
faqKeywords4 ==
    << << "q", "u", "i", "c", "k", " ", "s", "t", "a", "r", "t" >>,
       << "t", "u", "t", "o", "r", "i", "a", "l" >>,
       << "g", "e", "t", "t", "i", "n", "g", " ", "s", "t", "a", "r", "t", "e", "d" >>,
       << "g", "u", "i", "d", "e" >> >>

faqA4 ==
    << "C", "h", "e", "c", "k", " ", "o", "u", "t", " ", "o", "u", "r", " ", "[", "Q",
       "u", "i", "c", "k", " ", "S", "t", "a", "r", "t", " ", "G", "u", "i", "d", "e",
       "]", "(", "/", "a", "2", "a", "/", "d", "o", "c", "s", "/", "g", "e", "t", "t",
       "i", "n", "g", "-", "s", "t", "a", "r", "t", "e", "d", "/", "q", "u", "i", "c",
       "k", "-", "s", "t", "a", "r", "t", ")", " ", "t", "o", " ", "g", "e", "t", " ",
       "u", "p", " ", "a", "n", "d", " ", "r", "u", "n", "n", "i", "n", "g", " ", "i",
       "n", " ", "5", " ", "m", "i", "n", "u", "t", "e", "s", "!" >>

\* "What AI providers are supported?"
faqQ5 ==
    << "W", "h", "a", "t", " ", "A", "I", " ", "p", "r", "o", "v", "i", "d", "e", "r",
       "s", " ", "a", "r", "e", " ", "s", "u", "p", "p", "o", "r", "t", "e", "d", "?" >>

\* ["ai providers", "llm", "openai", "gemini", "providers"]
faqKeywords5 ==
    << << "a", "i", " ", "p", "r", "o", "v", "i", "d", "e", "r", "s" >>,
       << "l", "l", "m" >>,
       << "o", "p", "e", "n", "a", "i" >>,
       << "g", "e", "m", "i", "n", "i" >>,
       << "p", "r", "o", "v", "i", "d", "e", "r", "s" >> >>

faqA5 ==
    << "C", "u", "r", "r", "e", "n", "t", "l", "y", " ", "s", "u", "p", "p", "o", "r",
       "t", "e", "d", " ", "A", "I", " ", "p", "r", "o", "v", "i", "d", "e", "r", "s",
       ":", "\n", "\n", "-", " ", "*", "*", "O", "p", "e", "n", "A", "I", "*", "*", " ",
       "(", "G", "P", "T", "-", "4", ",", " ", "G", "P", "T", "-", "4", "o", ",", " ",
       "e", "t", "c", ".", ")", "\n", "-", " ", "*", "*", "G", "o", "o", "g", "l", "e",
       " ", "G", "e", "m", "i", "n", "i", "*", "*", " ", "(", "g", "e", "m", "i", "n",
       "i", "-", "2", ".", "0", "-", "f", "l", "a", "s", "h", ",", " ", "g", "e", "m",
       "i", "n", "i", "-", "1", ".", "5", "-", "p", "r", "o", ",", " ", "e", "t", "c",
       ".", ")", "\n", "\n", "S", "e", "t", " ", "u", "p", " ", "w", "i", "t", "h", ":",
       "\n", "u0060", "u0060", "u0060", "b", "a", "s", "h", "\n", "u", "v", " ", "r", "u", "n", " ",
       "k", "u", "b", "e", "s", "t", "e", "l", "l", "a", "r", " ", "c", "o", "n", "f",
       "i", "g", " ", "s", "e", "t", "-", "k", "e", "y", " ", "<", "p", "r", "o", "v",
       "i", "d", "e", "r", ">", " ", "Y", "O", "U", "R", "_", "A", "P", "I", "_", "K",
       "E", "Y", "\n", "u0060", "u0060", "u0060" >>

\* "How do I contribute to the project?"
faqQ6 ==
    << "H", "o", "w", " ", "d", "o", " ", "I", " ", "c", "o", "n", "t", "r", "i", "b",
       "u", "t", "e", " ", "t", "o", " ", "t", "h", "e", " ", "p", "r", "o", "j", "e",
       "c", "t", "?" >>

\* ["contribute", "development", "pull request", "github"]
faqKeywords6 ==
    << << "c", "o", "n", "t", "r", "i", "b", "u", "t", "e" >>,
       << "d", "e", "v", "e", "l", "o", "p", "m", "e", "n", "t" >>,
       << "p", "u", "l", "l", " ", "r", "e", "q", "u", "e", "s", "t" >>,
       << "g", "i", "t", "h", "u", "b" >> >>

faqA6 ==
    << "W", "e", " ", "w", "e", "l", "c", "o", "m", "e", " ", "c", "o", "n", "t", "r",
       "i", "b", "u", "t", "i", "o", "n", "s", "!", " ", "H", "e", "r", "e", "'", "s",
       " ", "h", "o", "w", " ", "t", "o", " ", "g", "e", "t", " ", "s", "t", "a", "r",
       "t", "e", "d", ":", "\n", "\n", "1", ".", " ", "F", "o", "r", "k", " ", "t", "h",
       "e", " ", "r", "e", "p", "o", "s", "i", "t", "o", "r", "y", "\n", "2", ".", " ",
       "C", "r", "e", "a", "t", "e", " ", "a", " ", "f", "e", "a", "t", "u", "r", "e",
       " ", "b", "r", "a", "n", "c", "h", "\n", "3", ".", " ", "M", "a", "k", "e", " ",
       "y", "o", "u", "r", " ", "c", "h", "a", "n", "g", "e", "s", "\n", "4", ".", " ",
       "R", "u", "n", " ", "t", "e", "s", "t", "s", ":", " ", "u0060", "p", "y", "t", "e",
       "s", "t", "u0060", "\n", "5", ".", " ", "S", "u", "b", "m", "i", "t", " ", "a", " ",
       "p", "u", "l", "l", " ", "r", "e", "q", "u", "e", "s", "t", "\n", "\n", "S", "e",
       "e", " ", "o", "u", "r", " ", "[", "C", "o", "n", "t", "r", "i", "b", "u", "t",
       "i", "n", "g", " ", "G", "u", "i", "d", "e", "]", "(", "/", "a", "2", "a", "/",
       "d", "o", "c", "s", "/", "C", "O", "N", "T", "R", "I", "B", "U", "T", "I", "N",
       "G", ")", " ", "f", "o", "r", " ", "d", "e", "t", "a", "i", "l", "e", "d", " ",
       "g", "u", "i", "d", "e", "l", "i", "n", "e", "s", "." >>

\* "What are the system requirements?"
faqQ7 ==
    << "W", "h", "a", "t", " ", "a", "r", "e", " ", "t", "h", "e", " ", "s", "y", "s",
       "t", "e", "m", " ", "r", "e", "q", "u", "i", "r", "e", "m", "e", "n", "t", "s",
       "?" >>

\* ["requirements", "prerequisites", "python", "system"]
faqKeywords7 ==
    << << "r", "e", "q", "u", "i", "r", "e", "m", "e", "n", "t", "s" >>,
       << "p", "r", "e", "r", "e", "q", "u", "i", "s", "i", "t", "e", "s" >>,
       << "p", "y", "t", "h", "o", "n" >>,
       << "s", "y", "s", "t", "e", "m" >> >>

faqA7 ==
    << "*", "*", "M", "i", "n", "i", "m", "u", "m", " ", "R", "e", "q", "u", "i", "r",
       "e", "m", "e", "n", "t", "s", ":", "*", "*", "\n", "-", " ", "P", "y", "t", "h",
       "o", "n", " ", "3", ".", "1", "1", "+", "\n", "-", " ", "5", "1", "2", "M", "B",
       " ", "R", "A", "M", "\n", "-", " ", "1", "0", "0", "M", "B", " ", "d", "i", "s",
       "k", " ", "s", "p", "a", "c", "e", "\n", "-", " ", "I", "n", "t", "e", "r", "n",
       "e", "t", " ", "c", "o", "n", "n", "e", "c", "t", "i", "o", "n", "\n", "\n", "*",
       "*", "R", "e", "c", "o", "m", "m", "e", "n", "d", "e", "d", ":", "*", "*", "\n",
       "-", " ", "P", "y", "t", "h", "o", "n", " ", "3", ".", "1", "2", "+", "\n", "-",
       " ", "2", "G", "B", " ", "R", "A", "M", "\n", "-", " ", "k", "u", "b", "e", "c",
       "t", "l", " ", "c", "o", "n", "f", "i", "g", "u", "r", "e", "d", "\n", "-", " ",
       "H", "e", "l", "m", " ", "3", ".", "x" >>

\* the text findAnswer returns when no item is selected (line 87)
fallbackAnswer ==
    << "uD83E", "uDD14", " ", "I", " ", "c", "o", "u", "l", "d", "n", "'", "t", " ", "f", "i",
       "n", "d", " ", "i", "n", "f", "o", "r", "m", "a", "t", "i", "o", "n", " ", "a",
       "b", "o", "u", "t", " ", "t", "h", "a", "t", ".", " ", "I", " ", "c", "a", "n",
       " ", "h", "e", "l", "p", " ", "y", "o", "u", " ", "w", "i", "t", "h", ":", "\n",
       "\n", "-", " ", "I", "n", "s", "t", "a", "l", "l", "a", "t", "i", "o", "n", " ",
       "a", "n", "d", " ", "s", "e", "t", "u", "p", "\n", "-", " ", "U", "s", "i", "n",
       "g", " ", "t", "h", "e", " ", "A", "I", " ", "a", "g", "e", "n", "t", "\n", "-",
       " ", "C", "o", "n", "t", "r", "i", "b", "u", "t", "i", "n", "g", " ", "t", "o",
       " ", "t", "h", "e", " ", "p", "r", "o", "j", "e", "c", "t", "\n", "-", " ", "S",
       "y", "s", "t", "e", "m", " ", "r", "e", "q", "u", "i", "r", "e", "m", "e", "n",
       "t", "s", "\n", "-", " ", "A", "I", " ", "p", "r", "o", "v", "i", "d", "e", "r",
       "s", "\n", "\n", "T", "r", "y", " ", "a", "s", "k", "i", "n", "g", " ", "a", "b",
       "o", "u", "t", " ", "o", "n", "e", " ", "o", "f", " ", "t", "h", "e", "s", "e",
       " ", "t", "o", "p", "i", "c", "s", ",", " ", "o", "r", " ", "c", "h", "e", "c",
       "k", " ", "o", "u", "r", " ", "[", "d", "o", "c", "u", "m", "e", "n", "t", "a",
       "t", "i", "o", "n", "]", "(", "/", "a", "2", "a", "/", "d", "o", "c", "s", "/",
       "i", "n", "t", "r", "o", "/", ")", "." >>

faq ==
    << [q |-> faqQ1, keywords |-> faqKeywords1, a |-> faqA1, category |-> "Getting Started"],
       [q |-> faqQ2, keywords |-> faqKeywords2, a |-> faqA2, category |-> "Overview"],
       [q |-> faqQ3, keywords |-> faqKeywords3, a |-> faqA3, category |-> "AI Features"],
       [q |-> faqQ4, keywords |-> faqKeywords4, a |-> faqA4, category |-> "Getting Started"],
       [q |-> faqQ5, keywords |-> faqKeywords5, a |-> faqA5, category |-> "AI Features"],
       [q |-> faqQ6, keywords |-> faqKeywords6, a |-> faqA6, category |-> "Development"],
       [q |-> faqQ7, keywords |-> faqKeywords7, a |-> faqA7, category |-> "Installation"] >>

\* const quickActions: the question of each shortcut, in order
quickActions == << faqQ1, faqQ3, faqQ4, faqQ6 >>

(***************************************************************************)
(* findAnswer (lines 57-88).  The loop over faq is the recursion ScanItems *)
(* over the positions of the list; bestMatch is the position of the item   *)
(* the code holds a reference to, 0 for null.  The list is a parameter so  *)
(* that the function can be examined on other knowledge bases than faq.    *)
(***************************************************************************)
\* mutant: keyword.length >= 3 as the test of a long keyword
KeywordScoreFrom3(q, keyword) ==
    IF includes(q, toLowerCase(keyword))
    THEN (IF Len(keyword) >= 3 THEN 3 ELSE 2)
    ELSE 0

\* mutant: a short keyword counts 1
KeywordScoreShort1(q, keyword) ==
    IF includes(q, toLowerCase(keyword))
    THEN (IF Len(keyword) > 3 THEN 3 ELSE 1)
    ELSE 0

\* the contribution of one keyword (lines 72-74)
KeywordScore(q, keyword) ==
    IF includes(q, toLowerCase(keyword))
    THEN (IF Len(keyword) > 3 THEN 3 ELSE 2)
    ELSE 0

RECURSIVE ScanKeywords(_, _, _, _)
\* for (const keyword of item.keywords) (lines 71-75)
ScanKeywords(q, keywords, k, score) ==
    IF k > Len(keywords) THEN score
    ELSE ScanKeywords(q, keywords, k + 1, score + KeywordScore(q, keywords[k]))

\* the body of the loop up to the comparison (lines 63-75)
ItemScore(q, item) ==
    ScanKeywords(q, item.keywords, 1,
                 IF includes(q, toLowerCase(item.q)) THEN 10 ELSE 0)

\* mutant: score >= bestScore, a later entry of equal score takes the lead
ImprovesOrTies(score, bestScore) == score >= bestScore

\* if (score > bestScore) (line 77)
Improves(score, bestScore) == score > bestScore

RECURSIVE ScanItemsSkipsLast(_, _, _, _, _)
\* mutant: the loop stops one item short of the end of the list
ScanItemsSkipsLast(q, items, i, bestMatch, bestScore) ==
    IF i >= Len(items) THEN [bestMatch |-> bestMatch, bestScore |-> bestScore]
    ELSE LET score == ItemScore(q, items[i])
         IN  IF score > bestScore
             THEN ScanItemsSkipsLast(q, items, i + 1, i, score)
             ELSE ScanItemsSkipsLast(q, items, i + 1, bestMatch, bestScore)

RECURSIVE ScanItems(_, _, _, _, _)
\* for (const item of faq) (lines 62-81)
ScanItems(q, items, i, bestMatch, bestScore) ==
    IF i > Len(items) THEN [bestMatch |-> bestMatch, bestScore |-> bestScore]
    ELSE LET score == ItemScore(q, items[i])
         IN  IF Improves(score, bestScore)
             THEN ScanItems(q, items, i + 1, i, score)
             ELSE ScanItems(q, items, i + 1, bestMatch, bestScore)

\* mutant: the query compared as typed, without toLowerCase()
findAnswerInQueryAsTyped(question, items) ==
    LET best == ScanItems(question, items, 1, 0, 0)
    IN  IF best.bestMatch # 0 /\ best.bestScore > 1
        THEN items[best.bestMatch].a
        ELSE fallbackAnswer

\* mutant: bestScore > 2 as the threshold
findAnswerInAbove2(question, items) ==
    LET q == toLowerCase(question)
        best == ScanItems(q, items, 1, 0, 0)
    IN  IF best.bestMatch # 0 /\ best.bestScore > 2
        THEN items[best.bestMatch].a
        ELSE fallbackAnswer

findAnswerIn(question, items) ==
    LET q == toLowerCase(question)
        best == ScanItems(q, items, 1, 0, 0)
    IN  IF best.bestMatch # 0 /\ best.bestScore > 1
        THEN items[best.bestMatch].a
        ELSE fallbackAnswer

findAnswer(question) == findAnswerIn(question, faq)

(***************************************************************************)
(* The component ProjectBot (lines 97-283).                                *)
(***************************************************************************)
\* setTimeout(..., 500) (line 144)
Delay == 500

\* what the user may put in the text field: nothing, one space, and a text
\* with a leading space that no item of faq matches
TypedTexts ==
    { << >>, << " " >>, << " ", "Z" >> }

Op(name, question) == [op |-> name, question |-> question]

\* the model schedules at most MaxSubmits timers
CanSchedule == nextTimerId <= MaxSubmits

Init ==
    /\ mounted = TRUE
    /\ open = FALSE
    /\ input = << >>
    /\ history = << >>
    /\ isTyping = FALSE
    /\ fullscreen = FALSE
    /\ bodyFullscreen = FALSE
    /\ scrollTop = 0
    /\ focusRequested = FALSE
    /\ timers = << >>
    /\ nextTimerId = 1
    /\ now = 0
    /\ staleCompletions = 0
    /\ lastOp = Op("mount", << >>)
    /\ mQuery = << >>
    /\ mKb = << >>
    /\ mResult = << >>
    /\ fAnswer = << >>
    /\ fBlocks = << >>

\* mutant: the controls of the window stay usable while it is not shown
WindowShownAlways == TRUE

\* {open && (...)} (line 171): the window and every control in it are rendered
WindowShown == open

\* mutant: the effect adds the class and never removes it
FullscreenEffectAddOnly == bodyFullscreen' = (bodyFullscreen \/ (open' /\ fullscreen'))

\* useEffect on [open, fullscreen] (lines 118-127), run after the commit
FullscreenEffect == bodyFullscreen' = (open' /\ fullscreen')

\* useEffect on [history] (lines 106-110), run after the commit in which
\* history changed: with the window rendered historyRef.current is the list
\* element and its scrollTop is set to scrollHeight, the newest Turn; with
\* the window not rendered the ref is null and the effect does nothing
ScrollEffect ==
    scrollTop' = IF open' THEN Len(history') ELSE scrollTop

\* mutant: the effect with the dependency list [], run at the mount only,
\* where open is false
FocusEffectAtMountOnly == focusRequested' = FALSE

\* useEffect on [open] (lines 112-116), run after the commit in which open
\* changed: if (open && inputRef.current) focus().  The ref holds the text
\* field exactly when the window is rendered, so the call is made when open
\* has become true; the closing removes the field the call was made on
FocusEffect == focusRequested' = open'

\* the button "Ask Assistant" (lines 162-169), shown while the window is not
OpenClick ==
    /\ mounted /\ ~open
    /\ open' = TRUE
    /\ scrollTop' = 0
    /\ lastOp' = Op("open", << >>)
    /\ UNCHANGED << mounted, input, history, isTyping, fullscreen, timers,
                    nextTimerId, now, staleCompletions, matcherVars, formatterVars >>
    /\ FocusEffect
    /\ FullscreenEffect

\* mutant: close without setFullscreen(false)
CloseStateKeepsFullscreen == open' = FALSE /\ UNCHANGED fullscreen

\* setOpen(false); setFullscreen(false) (lines 193-196)
CloseState == open' = FALSE /\ fullscreen' = FALSE

\* mutant: the close button also starts the conversation afresh
CloseClickResets ==
    /\ mounted /\ open
    /\ open' = FALSE /\ fullscreen' = FALSE
    /\ history' = << >> /\ input' = << >>
    /\ scrollTop' = 0
    /\ lastOp' = [op |-> "close", question |-> << >>]
    /\ UNCHANGED << mounted, isTyping, timers, nextTimerId, now,
                    staleCompletions, matcherVars, formatterVars >>
    /\ focusRequested' = FALSE
    /\ bodyFullscreen' = FALSE

\* the close button (lines 192-203)
CloseClick ==
    /\ mounted /\ WindowShown
    /\ CloseState
    /\ scrollTop' = 0
    /\ lastOp' = Op("close", << >>)
    /\ UNCHANGED << mounted, input, history, isTyping, timers, nextTimerId, now,
                    staleCompletions, matcherVars, formatterVars >>
    /\ FocusEffect
    /\ FullscreenEffect

\* the fullscreen button (lines 184-191), rendered inside {open && ...}
FullscreenClick ==
    /\ mounted /\ WindowShown
    /\ fullscreen' = ~fullscreen
    /\ lastOp' = Op("fullscreen", << >>)
    /\ UNCHANGED << mounted, open, input, history, isTyping, scrollTop,
                    focusRequested, timers,
                    nextTimerId, now, staleCompletions, matcherVars, formatterVars >>
    /\ FullscreenEffect

\* mutant: Clear also leaves fullscreen
ClearClickLeavesFullscreen ==
    /\ mounted /\ open /\ Len(history) > 0
    /\ history' = << >>
    /\ fullscreen' = FALSE
    /\ bodyFullscreen' = FALSE
    /\ lastOp' = [op |-> "clear", question |-> << >>]
    /\ UNCHANGED << mounted, open, input, isTyping, focusRequested, timers,
                    nextTimerId, now, staleCompletions, matcherVars, formatterVars >>
    /\ ScrollEffect

\* mutant: Clear also cancels the submission that is awaiting
ClearClickCancels ==
    /\ mounted /\ open /\ Len(history) > 0
    /\ history' = << >>
    /\ isTyping' = FALSE
    /\ timers' = << >>
    /\ lastOp' = [op |-> "clear", question |-> << >>]
    /\ UNCHANGED << mounted, open, input, fullscreen, bodyFullscreen,
                    focusRequested, nextTimerId, now, staleCompletions,
                    matcherVars, formatterVars >>
    /\ ScrollEffect

\* handleClear (lines 147-149) from the Clear button (lines 179-183)
ClearClick ==
    /\ mounted /\ WindowShown /\ Len(history) > 0
    /\ history' = << >>
    /\ lastOp' = Op("clear", << >>)
    /\ UNCHANGED << mounted, open, input, isTyping, fullscreen, bodyFullscreen,
                    focusRequested, timers, nextTimerId, now, staleCompletions,
                    matcherVars, formatterVars >>
    /\ ScrollEffect

\* onChange of the text field (line 265); the field is disabled while isTyping
ChangeInput ==
    /\ mounted /\ WindowShown /\ ~isTyping
    /\ \E t \in TypedTexts \ {input} : input' = t
    /\ lastOp' = Op("change", << >>)
    /\ UNCHANGED << mounted, open, history, isTyping, fullscreen, bodyFullscreen,
                    scrollTop, focusRequested, timers, nextTimerId, now,
                    staleCompletions, matcherVars, formatterVars >>

\* mutant: the test without trim()
RejectedUntrimmed(questionText) == questionText = << >>

\* if (!questionText.trim()) return (line 131)
Rejected(questionText) == trim(questionText) = << >>

\* handleSend (lines 129-145).  An absent argument and the empty string are
\* both falsy in (question || input): the absent one is passed as << >>.
handleSend(question) ==
    LET questionText == IF question # << >> THEN question ELSE input
    IN  IF Rejected(questionText)
        THEN UNCHANGED << isTyping, timers, nextTimerId >>
        ELSE /\ isTyping' = TRUE
             /\ timers' = Append(timers, [id |-> nextTimerId,
                                          due |-> now + Delay,
                                          questionText |-> questionText])
             /\ nextTimerId' = nextTimerId + 1

\* onKeyDown of the text field with Enter (line 268)
EnterKey ==
    /\ mounted /\ WindowShown /\ ~isTyping
    /\ CanSchedule
    /\ handleSend(<< >>)
    /\ lastOp' = Op("enter", << >>)
    /\ UNCHANGED << mounted, open, input, history, fullscreen, bodyFullscreen,
                    scrollTop, focusRequested, now, staleCompletions, matcherVars, formatterVars >>

\* the send button (lines 271-277), disabled={!input.trim() || isTyping}
SendClick ==
    /\ mounted /\ WindowShown /\ trim(input) # << >> /\ ~isTyping
    /\ CanSchedule
    /\ handleSend(<< >>)
    /\ lastOp' = Op("send", << >>)
    /\ UNCHANGED << mounted, open, input, history, fullscreen, bodyFullscreen,
                    scrollTop, focusRequested, now, staleCompletions, matcherVars, formatterVars >>

\* the buttons of the welcome message (lines 208-224), shown while the history
\* is empty; they carry no disabled attribute
QuickActionClick ==
    /\ mounted /\ WindowShown /\ Len(history) = 0
    /\ CanSchedule
    /\ \E k \in 1..Len(quickActions) :
          /\ handleSend(quickActions[k])
          /\ lastOp' = Op("quick", quickActions[k])
    /\ UNCHANGED << mounted, open, input, history, fullscreen, bodyFullscreen,
                    scrollTop, focusRequested, now, staleCompletions, matcherVars, formatterVars >>

\* every text handleSend can accept in this model
SubmittableTexts ==
    {t \in TypedTexts : trim(t) # << >>} \cup {quickActions[k] : k \in 1..Len(quickActions)}

\* findAnswer(t) for each text t of the model, evaluated once
answerOf == [t \in SubmittableTexts |-> findAnswer(t)]

\* mutant: the question stored trimmed
NewTurnTrimmed(questionText) ==
    [q |-> trim(questionText), a |-> answerOf[questionText], timestamp |-> now]

\* mutant: a best score kept from the call before, so that a later call
\* finds no entry that improves on it
NewTurnStaleBest(questionText) ==
    [q |-> questionText,
     a |-> IF history # << >> THEN fallbackAnswer ELSE answerOf[questionText],
     timestamp |-> now]

\* the Turn the callback appends (lines 136-141)
NewTurn(questionText) ==
    [q |-> questionText, a |-> answerOf[questionText], timestamp |-> now]

\* mutant: the answer is dropped when the window has been closed meanwhile
CompletionIfOpen(questionText) ==
    IF open
    THEN /\ history' = Append(history, [q |-> questionText,
                                         a |-> answerOf[questionText],
                                         timestamp |-> now])
         /\ input' = << >>
         /\ isTyping' = FALSE
    ELSE UNCHANGED << history, input, isTyping >>

\* mutant: the callback without setIsTyping(false)
CompletionKeepsTyping(questionText) ==
    /\ history' = Append(history, [q |-> questionText,
                                    a |-> answerOf[questionText],
                                    timestamp |-> now])
    /\ input' = << >>
    /\ UNCHANGED isTyping

\* mutant: the Turn put in front, [turn, ...prev]
CompletionPrepends(questionText) ==
    /\ history' = << [q |-> questionText, a |-> answerOf[questionText],
                      timestamp |-> now] >> \o history
    /\ input' = << >>
    /\ isTyping' = FALSE

\* the body of the callback (lines 136-143): one Turn appended through the
\* functional update of history, the field emptied, the indicator reset
Completion(questionText) ==
    /\ history' = Append(history, NewTurn(questionText))
    /\ input' = << >>
    /\ isTyping' = FALSE

\* the callback given to setTimeout (lines 135-144).  Timers of equal delay
\* run in the order they were set.  On an unmounted component React drops
\* the three state updates; the callback has run all the same.
TimerFire ==
    /\ timers # << >>
    /\ Head(timers).due <= now
    /\ timers' = Tail(timers)
    /\ lastOp' = Op("timer", << >>)
    /\ UNCHANGED << mounted, open, fullscreen, bodyFullscreen, focusRequested,
                    nextTimerId, now, matcherVars, formatterVars >>
    /\ IF mounted
       THEN /\ Completion(Head(timers).questionText)
            /\ ScrollEffect
            /\ UNCHANGED staleCompletions
       ELSE /\ staleCompletions' = staleCompletions + 1
            /\ UNCHANGED << history, input, isTyping, scrollTop >>

\* mutant: the question passed to formatAnswer as well
FormatterInputQuestion(i) == history[i].q

\* the argument of formatAnswer for the Turn at position i (line 241), whose
\* result is set as HTML (line 157)
FormatterInput(i) == history[i].a

\* the text node the question of the Turn at position i is shown as (line 233)
PlainText(i) == history[i].q

\* time passes: the clock moves on while the callback next in line is not
\* due yet.  The clock counts in steps of the delay, and it is left alone
\* while nothing is pending, when its value bears on nothing.
Tick ==
    /\ timers # << >>
    /\ Head(timers).due > now
    /\ now' = now + Delay
    /\ lastOp' = Op("tick", << >>)
    /\ UNCHANGED << mounted, open, input, history, isTyping, fullscreen,
                    bodyFullscreen, scrollTop, focusRequested, timers,
                    nextTimerId, staleCompletions, matcherVars, formatterVars >>

\* the component is unmounted: the cleanup of the effect (lines 124-126) runs
\* and the state of the instance (lines 98-104) is discarded, shown here as
\* the values a new instance would start from; nothing clears the timeout
Unmount ==
    /\ mounted
    /\ mounted' = FALSE
    /\ bodyFullscreen' = FALSE
    /\ scrollTop' = 0
    /\ focusRequested' = FALSE
    /\ open' = FALSE /\ input' = << >> /\ history' = << >>
    /\ isTyping' = FALSE /\ fullscreen' = FALSE
    /\ lastOp' = Op("unmount", << >>)
    /\ UNCHANGED << timers, nextTimerId, now, staleCompletions, matcherVars, formatterVars >>

Next ==
    \/ OpenClick
    \/ CloseClick
    \/ FullscreenClick
    \/ ClearClick
    \/ ChangeInput
    \/ EnterKey
    \/ SendClick
    \/ QuickActionClick
    \/ TimerFire
    \/ Tick
    \/ Unmount

Spec == Init /\ [][Next]_vars

\* a due callback is run and time does not stop: the event loop of the browser
FairSpec == Spec /\ WF_vars(TimerFire) /\ WF_vars(Tick)

(***************************************************************************)
(* Properties of the session.                                              *)
(***************************************************************************)
\* the timer with handle id is pending
InFlight(id) == \E i \in 1..Len(timers) : timers[i].id = id

\* the text captured by the pending timer with handle id
TextOf(id) == timers[CHOOSE i \in 1..Len(timers) : timers[i].id = id].questionText

\* C1 (as claimed): a submit made while an earlier submission awaits its answer
\* schedules nothing, so at most one completion is ever pending.
C1_AtMostOnePending == Len(timers) <= 1

\* C2 (as claimed): after the unmount no pending completion runs.
C2_NoCompletionAfterUnmount == staleCompletions = 0

\* C3: in every reachable state fullscreen implies open, and the state the
\* close button leaves has both open and fullscreen false.
C3_FullscreenImpliesOpen ==
    /\ fullscreen => open
    /\ lastOp.op = "close" => (~open /\ ~fullscreen)

\* C3 witness: the window is open in fullscreen with a submission awaiting,
\* the state the close button is then pressed in.
C3_Witness == open /\ fullscreen /\ isTyping /\ lastOp.op = "fullscreen"

\* C4 (as claimed): isTyping implies open.
C4_AwaitingImpliesOpen == isTyping => open

\* C4 (amended): a submission is accepted only while the window is open, in a
\* step that leaves it open; close does not end the wait.
C4_AcceptedOnlyWhileOpen ==
    [][(Len(timers') > Len(timers) \/ (~isTyping /\ isTyping')) => (open /\ open')]_vars

\* C4 witness: the window is closed while a submission awaits its answer.
C4_Witness == mounted /\ ~open /\ isTyping /\ timers # << >>

\* C5: Enter or the send button on a field that is empty or blank after
\* trimming schedules no timer and changes none of isTyping, history, input,
\* open, fullscreen.
C5_BlankRejected ==
    [][(lastOp'.op \in {"enter", "send"} /\ trim(input) = << >>)
          => UNCHANGED << timers, nextTimerId, isTyping, history, input, open,
                          fullscreen >>]_vars

\* C5 witness: Enter was pressed on a field holding one space.
C5_Witness == lastOp.op = "enter" /\ input = << " " >> /\ ~isTyping

\* C6: every pending completion eventually runs, and the step in which it
\* runs on a mounted component appends exactly one Turn, whose question is
\* the text submitted, empties input and resets isTyping, whether the window
\* is open, closed or fullscreen at that moment.
C6_CompletionLiveness ==
    /\ \A id \in 1..MaxSubmits : InFlight(id) ~> ~InFlight(id)
    /\ [][\A id \in 1..MaxSubmits :
             (mounted /\ InFlight(id) /\ ~InFlight(id)')
                => (/\ Len(history') = Len(history) + 1
                    /\ SubSeq(history', 1, Len(history)) = history
                    /\ history'[Len(history')].q = TextOf(id)
                    /\ input' = << >>
                    /\ ~isTyping')]_vars

\* C6 witness: a completion has run while the window was closed and its Turn
\* is in the history.
C6_Witness == mounted /\ ~open /\ lastOp.op = "timer" /\ Len(history) > 0

\* C7: the question of every Turn is the text that was submitted, unmodified
\* (the field's text for Enter and the send button, the shortcut's question
\* for a quick action), its answer is findAnswer of that question, and a
\* Turn in the history is never modified.
C7_TurnContent ==
    /\ [](\A i \in 1..Len(history) :
             /\ history[i].q \in SubmittableTexts
             /\ history[i].a = answerOf[history[i].q])
    /\ [][/\ (Len(timers') > Len(timers))
                => (timers'[Len(timers')].questionText
                      = (IF lastOp'.op = "quick" THEN lastOp'.question ELSE input))
          /\ (Len(history') > Len(history))
                => (history'[Len(history')].q = Head(timers).questionText)
          /\ \A i \in 1..Len(history) :
                (i <= Len(history')) => (history'[i] = history[i])]_vars

\* C7 witness: the history holds the Turn of a shortcut, answered by its item
\* of faq, and then the Turn of a typed text with its leading space and its
\* capital, answered by the fallback text.
C7_Witness ==
    /\ Len(history) = 2
    /\ history[1].q = quickActions[2] /\ history[1].a = faqA3
    /\ history[2].q = << " ", "Z" >> /\ history[2].a = fallbackAnswer

\* C8 (as claimed): while a submission stays pending on a mounted component,
\* input does not change.
C8_InputFrozenInFlight ==
    [][(mounted /\ mounted' /\ \E id \in 1..MaxSubmits : InFlight(id) /\ InFlight(id)')
          => input' = input]_vars

\* C9: whenever isTyping is true a submission is pending whose Turn has not
\* been appended, and the state the completion leaves has isTyping false.
C9_TypingOnlyWhilePending ==
    /\ isTyping => timers # << >>
    /\ lastOp.op = "timer" => ~isTyping

\* C9 witness: a completion has just run on a mounted component, appended
\* its Turn and reset isTyping.
C9_Witness ==
    mounted /\ lastOp.op = "timer" /\ Len(history) = 1 /\ ~isTyping /\ timers = << >>

C15_AppendOnly ==
    [][mounted' =>
         /\ \/ history' = history
            \/ /\ Len(history') = Len(history) + 1
               /\ SubSeq(history', 1, Len(history)) = history
            \/ lastOp'.op = "clear"
         /\ lastOp'.op = "clear" => history' = << >>]_vars

\* C15 witness: a second Turn has been appended after the first, the earlier
\* one first.
C15_Witness ==
    /\ mounted /\ lastOp.op = "timer"
    /\ Len(history) = 2
    /\ history[1].q # history[2].q
    /\ history[1].timestamp <= history[2].timestamp

\* C16: Clear is taken with the window open, empties the history and leaves
\* open and fullscreen as they are.
C16_ClearKeepsWindow ==
    [][lastOp'.op = "clear" =>
         (open /\ Len(history) > 0 /\ history' = << >>
            /\ open' = open /\ fullscreen' = fullscreen)]_vars

\* C16 witness: Clear was pressed in fullscreen while a submission awaits.
C16_Witness ==
    lastOp.op = "clear" /\ history = << >> /\ open /\ fullscreen /\ isTyping

\* C27: a Clear pressed while a submission is awaiting empties the history
\* at once and leaves the indicator set and the callback pending; and an
\* empty history becomes non-empty only by the callback, which leaves in it
\* the one new Turn and nothing else.
C27_ClearKeepsSubmission ==
    [][ /\ (lastOp'.op = "clear" /\ isTyping) =>
              (history' = << >> /\ isTyping' /\ timers # << >> /\ timers' = timers)
        /\ (mounted /\ history = << >> /\ history' # << >>) =>
              (/\ lastOp'.op = "timer"
               /\ timers # << >>
               /\ history' = << [q |-> Head(timers).questionText,
                                 a |-> answerOf[Head(timers).questionText],
                                 timestamp |-> now] >>)
      ]_vars

\* C27 witness: Clear was pressed while a submission is awaiting whose
\* callback is due: the history is empty, the indicator set, the callback
\* pending.
C27_Witness ==
    /\ lastOp.op = "clear" /\ history = << >> /\ isTyping
    /\ Len(timers) = 1 /\ Head(timers).due <= now

\* C28: of the state of the component the close button changes open and
\* fullscreen only, and the open button changes open only: the history, the
\* text of the field, the indicator and the pending callbacks are after the
\* step what they were before it.
C28_CloseOpenFrame ==
    [][ /\ lastOp'.op = "close" =>
              (/\ ~open' /\ ~fullscreen'
               /\ history' = history /\ input' = input
               /\ isTyping' = isTyping /\ timers' = timers)
        /\ lastOp'.op = "open" =>
              (/\ open' /\ fullscreen' = fullscreen
               /\ history' = history /\ input' = input
               /\ isTyping' = isTyping /\ timers' = timers)
      ]_vars

\* C28 witness: the widget reopened with the Turn, the typed text and the
\* awaiting submission it was closed with.
C28_Witness ==
    /\ lastOp.op = "open" /\ open
    /\ Len(history) = 1 /\ input = << " ", "Z" >> /\ isTyping

\* C17: after every step the body carries the class exactly when the component
\* is mounted with the window open and fullscreen.
C17_BodyFlag == bodyFullscreen = (mounted /\ open /\ fullscreen)

\* C17 witness: the class is set, with a submission awaiting, in the state
\* the close button or the unmount then releases it from.
C17_Witness == bodyFullscreen /\ mounted /\ isTyping /\ Len(history) = 1

\* C18: every step that appends a Turn to the history leaves the scroll
\* position at the newest Turn, whatever the state the append occurs in.
C18_ScrollToLatest ==
    [][(mounted /\ Len(history') = Len(history) + 1) => scrollTop' = Len(history')]_vars

\* C21: every step of the open gesture that takes the closed widget to the
\* open widget with no submission awaiting has the focus requested on the
\* text field.
C21_FocusOnOpen ==
    [][(mounted /\ ~open /\ open' /\ ~isTyping') => focusRequested']_vars

\* C21 witness: the widget reopened, idle, with a Turn in the history and the
\* focus requested.
C21_Witness ==
    /\ lastOp.op = "open" /\ open /\ ~isTyping /\ Len(history) = 1
    /\ focusRequested

\* the texts findAnswer can return on the shipped faq
AnswerTexts == {faq[k].a : k \in 1..Len(faq)} \cup {fallbackAnswer}

\* C19: every text passed to formatAnswer is the answer of an entry of faq or
\* the fallback text, never the text the user submitted, which is shown as a
\* text node.
C19_FormatterInputTrusted ==
    \A i \in 1..Len(history) :
        /\ FormatterInput(i) \in AnswerTexts
        /\ PlainText(i) \in SubmittableTexts

\* C19 witness: the window shows the Turn of a typed text, whose formatter
\* input is the fallback text.
C19_Witness ==
    /\ open /\ Len(history) = 1
    /\ PlainText(1) = << " ", "Z" >>
    /\ FormatterInput(1) = fallbackAnswer

\* C20: the fullscreen button is pressed only with the window open; it flips
\* fullscreen and leaves open, isTyping, input and the history as they are.
C20_ToggleFullscreen ==
    [][lastOp'.op = "fullscreen" =>
         (open /\ fullscreen' = ~fullscreen
            /\ UNCHANGED << open, isTyping, input, history >>)]_vars

\* C20 witness: fullscreen was left again while a submission awaits, after a
\* first Turn.
C20_Witness ==
    lastOp.op = "fullscreen" /\ ~fullscreen /\ open /\ isTyping /\ Len(history) = 1

(***************************************************************************)
(* findAnswer as a function of its inputs: a query and a knowledge base    *)
(* are chosen, then findAnswer is called on them.                          *)
(***************************************************************************)
\* all texts over the units of alphabet with at most n units
RECURSIVE TextsUpTo(_, _)
TextsUpTo(alphabet, n) ==
    IF n = 0 THEN { << >> }
    ELSE LET shorter == TextsUpTo(alphabet, n - 1)
         IN  shorter \cup {Append(t, c) : t \in shorter, c \in alphabet}

\* the queries: every text over a lower-case and an upper-case unit up to
\* MaxQueryLen, the questions of the shortcuts, and some questions a user
\* might put to the shipped faq, one of them in capitals and one starting
\* with the capital I with dot above
MatchQueries ==
    TextsUpTo({"a", "B"}, MaxQueryLen)
      \cup {quickActions[k] : k \in 1..Len(quickActions)}
      \cup {faq[k].q : k \in 1..Len(faq)}
      \cup { << "A", "I" >>,
             << "s", "e", "t", "u", "p", " ", "t", "h", "e", " ", "L", "L", "M" >>,
             << "c", "h", "a", "t", " ", "G", "U", "I", "D", "E" >>,
             << "z", "z" >>,
             << "H", "O", "W", " ", "D", "O", " ", "I", " ", "I", "N", "S", "T", "A", "L", "L",
                " ", "k", "u", "b", "e", "s", "t", "e", "l", "l", "a", "r", " ", "a", "2", "a",
                "?" >>,
             << "u0130", "n", "s", "t", "a", "l", "l" >> }

\* question and keywords of the entries the generated knowledge bases are
\* made of: keywords of 0, 1, 3 and 4 units, in both cases, and none at all
EntryShapes ==
    { [q |-> << "a", "b" >>, keywords |-> << << "a" >> >>],
      [q |-> << "B" >>, keywords |-> << << "a", "B", "a" >>, << "a", "b", "a", "b" >> >>],
      [q |-> << "b", "b" >>, keywords |-> << >>],
      [q |-> << "A", "b" >>, keywords |-> << << "b", "a", "b", "a" >> >>],
      [q |-> << "b", "a", "a" >>, keywords |-> << << >>, << "B", "B" >> >>] }

AnswerLabels == << "1", "2", "3", "4", "5", "6", "7", "8", "9" >>

\* the knowledge bases: every list of at most MaxEntries entries of those
\* shapes, the answer of an entry naming its position, and the shipped faq
MatchKbs ==
    { [i \in 1..Len(shapes) |->
         [q |-> shapes[i].q, keywords |-> shapes[i].keywords,
          a |-> << "#", AnswerLabels[i] >>, category |-> ""]] :
      shapes \in UNION {[1..n -> EntryShapes] : n \in 0..MaxEntries} }
      \cup {faq}

MatchInit ==
    /\ mounted = TRUE
    /\ open = FALSE
    /\ input = << >>
    /\ history = << >>
    /\ isTyping = FALSE
    /\ fullscreen = FALSE
    /\ bodyFullscreen = FALSE
    /\ scrollTop = 0
    /\ focusRequested = FALSE
    /\ timers = << >>
    /\ nextTimerId = 1
    /\ now = 0
    /\ staleCompletions = 0
    /\ lastOp = Op("mount", << >>)
    /\ mQuery \in MatchQueries
    /\ mKb \in MatchKbs
    /\ mResult = << >>
    /\ fAnswer = << >>
    /\ fBlocks = << >>

\* one call of findAnswer; mResult holds the value returned
Match ==
    /\ mResult = << >>
    /\ mResult' = << findAnswerIn(mQuery, mKb) >>
    /\ UNCHANGED << sessionVars, mQuery, mKb, formatterVars >>

MatchNext == Match

MatchSpec == MatchInit /\ [][MatchNext]_vars

(***************************************************************************)
(* Properties of findAnswer.                                               *)
(***************************************************************************)
\* the score the specification gives an entry for a query
ClaimedScore(query, entry) ==
    LET lq == toLowerCase(query)
        hit == {k \in 1..Len(entry.keywords) : includes(lq, toLowerCase(entry.keywords[k]))}
    IN  (IF includes(lq, toLowerCase(entry.q)) THEN 10 ELSE 0)
          + 3 * Cardinality({k \in hit : Len(entry.keywords[k]) > 3})
          + 2 * Cardinality({k \in hit : Len(entry.keywords[k]) <= 3})

\* the largest claimed score over the entries of kb, 0 for none
ClaimedBest(query, kb) ==
    LET scores == {ClaimedScore(query, kb[i]) : i \in 1..Len(kb)} \cup {0}
    IN  CHOOSE m \in scores : \A n \in scores : n <= m

\* the first position of kb whose entry attains the largest claimed score
ClaimedWinner(query, kb) ==
    LET at == {i \in 1..Len(kb) : ClaimedScore(query, kb[i]) = ClaimedBest(query, kb)}
    IN  CHOOSE i \in at : \A j \in at : i <= j

\* C10: the score findAnswer computes for each entry is 10 for the question
\* contained in the lower-cased query plus 3 for each contained keyword longer
\* than 3 and 2 for each other contained keyword, and when the largest score
\* exceeds 1 findAnswer returns the answer of the first entry attaining it.
C10_ScoringAndSelection ==
    mResult # << >> =>
        /\ \A i \in 1..Len(mKb) :
              ItemScore(toLowerCase(mQuery), mKb[i]) = ClaimedScore(mQuery, mKb[i])
        /\ ClaimedBest(mQuery, mKb) > 1
              => mResult[1] = mKb[ClaimedWinner(mQuery, mKb)].a

\* C10 witness: findAnswer has returned the answer of the second entry, which
\* scores 15 (its question, a keyword of 3 and a keyword of 4 units), over a
\* first entry that scores 12.
C10_Witness ==
    /\ mResult # << >>
    /\ Len(mKb) = 2
    /\ ClaimedScore(mQuery, mKb[1]) = 12
    /\ ClaimedScore(mQuery, mKb[2]) = 15
    /\ mResult[1] = << "#", "2" >>

\* the lower-cased query contains no question and no keyword of kb
NothingContained(query, kb) ==
    \A i \in 1..Len(kb) :
        /\ ~includes(toLowerCase(query), toLowerCase(kb[i].q))
        /\ \A k \in 1..Len(kb[i].keywords) :
              ~includes(toLowerCase(query), toLowerCase(kb[i].keywords[k]))

\* C11: when the best score over all entries is 0 or 1 findAnswer returns the
\* fallback text, when it is 2 or more it returns the winning entry's answer,
\* and a query that contains no question and no keyword gets the fallback text.
C11_ThresholdAndFallback ==
    mResult # << >> =>
        /\ ClaimedBest(mQuery, mKb) \in {0, 1} => mResult[1] = fallbackAnswer
        /\ ClaimedBest(mQuery, mKb) >= 2
              => mResult[1] = mKb[ClaimedWinner(mQuery, mKb)].a
        /\ NothingContained(mQuery, mKb) => mResult[1] = fallbackAnswer

\* C11 witness: on the boundary, a best score of exactly 2 (one keyword of at
\* most 3 units) has returned the entry's answer and not the fallback text.
C11_Witness ==
    /\ mResult # << >>
    /\ Len(mKb) = 1
    /\ ClaimedBest(mQuery, mKb) = 2
    /\ mResult[1] = << "#", "1" >>

\* C11 witness of the other side: the fallback text returned for a query that
\* contains nothing of a knowledge base of two entries.
C11_FallbackReached ==
    /\ mResult = << fallbackAnswer >>
    /\ Len(mKb) = 2
    /\ mQuery # << >>
    /\ NothingContained(mQuery, mKb)

\* the positions of kb whose entry attains the largest claimed score
Leaders(query, kb) ==
    {i \in 1..Len(kb) : ClaimedScore(query, kb[i]) = ClaimedBest(query, kb)}

\* C12: when two or more entries attain the same largest score (above 1),
\* findAnswer returns the answer of the one at the smallest position and of
\* no later one.
C12_TieBreak ==
    (mResult # << >> /\ Cardinality(Leaders(mQuery, mKb)) >= 2
       /\ ClaimedBest(mQuery, mKb) > 1)
      => LET first == CHOOSE i \in Leaders(mQuery, mKb) :
                         \A j \in Leaders(mQuery, mKb) : i <= j
         IN  /\ mResult[1] = mKb[first].a
             /\ \A j \in Leaders(mQuery, mKb) \ {first} : mResult[1] # mKb[j].a

\* C12 witness: two entries of different shape both score 12 and the answer
\* returned is the first one's.
C12_Witness ==
    /\ mResult = << << "#", "1" >> >>
    /\ Len(mKb) = 2
    /\ mKb[1].q # mKb[2].q
    /\ ClaimedScore(mQuery, mKb[1]) = 12
    /\ ClaimedScore(mQuery, mKb[2]) = 12

\* the same letter in the other case, for the letters a-z and A-Z
AsciiOtherCase(c) ==
    IF c \in DOMAIN UpperToLower THEN UpperToLower[c]
    ELSE IF \E u \in DOMAIN UpperToLower : UpperToLower[u] = c
         THEN CHOOSE u \in DOMAIN UpperToLower : UpperToLower[u] = c
         ELSE c

\* the same letter in the other case, where the capital I with dot above
\* (U+0130) has the small letter i as its lower case (Unicode, simple mapping)
OtherCase(c) == IF c = "u0130" THEN "i" ELSE AsciiOtherCase(c)

\* the sets of positions whose case is changed: every set for a short text;
\* none, all and each single one for a long text
CasePositions(t) ==
    IF Len(t) <= MaxQueryLen THEN SUBSET (1..Len(t))
    ELSE {{}, 1..Len(t)} \cup {{i} : i \in 1..Len(t)}

\* the texts that differ from t in the case of letters only
CaseVariants(t, Other(_)) ==
    { [i \in 1..Len(t) |-> IF i \in S THEN Other(t[i]) ELSE t[i]] : S \in CasePositions(t) }

\* kb with the case of every letter of the questions and keywords changed
OtherCaseKb(kb, Other(_)) ==
    [i \in 1..Len(kb) |->
        [q |-> [j \in 1..Len(kb[i].q) |-> Other(kb[i].q[j])],
         keywords |-> [k \in 1..Len(kb[i].keywords) |->
                          [j \in 1..Len(kb[i].keywords[k]) |-> Other(kb[i].keywords[k][j])]],
         a |-> kb[i].a,
         category |-> kb[i].category]]

\* C13 (as claimed): findAnswer returns the same for every text that differs
\* from the query in letter case only, and for the knowledge base with the
\* letter case of its questions and keywords changed.
C13_CaseInsensitive ==
    mResult # << >> =>
        /\ \A v \in CaseVariants(mQuery, OtherCase) : findAnswerIn(v, mKb) = mResult[1]
        /\ findAnswerIn(mQuery, OtherCaseKb(mKb, OtherCase)) = mResult[1]

\* C13 (amended): the same, for changes of case of the letters a-z and A-Z.
C13_AsciiCaseInsensitive ==
    mResult # << >> =>
        /\ \A v \in CaseVariants(mQuery, AsciiOtherCase) : findAnswerIn(v, mKb) = mResult[1]
        /\ findAnswerIn(mQuery, OtherCaseKb(mKb, AsciiOtherCase)) = mResult[1]

\* C13 witness: a query with a capital has got the answer of an entry whose
\* question it contains only after lower-casing, on an entry written with a
\* capital itself.
C13_Witness ==
    /\ mResult = << << "#", "1" >> >>
    /\ mQuery = << "a", "B" >>
    /\ mKb[1].q = << "A", "b" >>
    /\ ClaimedScore(mQuery, mKb[1]) = 10

(***************************************************************************)
(* formatAnswer (lines 151-158).  A regular expression with the flag g is  *)
(* applied from left to right: at each position a match is tried, a match  *)
(* is replaced and the scan goes on behind it, a position without a match  *)
(* is copied.  The value of formatAnswer is shown as the sequence of the   *)
(* __html texts of the <div> blocks it returns.                            *)
(***************************************************************************)
\* the backquote
Backquote == "u0060"

\* the units the dot of a regular expression does not match
LineTerminators == {"\n", "\r", "u2028", "u2029"}

\* the texts of the replacement strings (lines 153-155)
StrongOpen == << "<", "s", "t", "r", "o", "n", "g", ">" >>
StrongClose == << "<", "/", "s", "t", "r", "o", "n", "g", ">" >>
CodeOpen == << "<", "c", "o", "d", "e", ">" >>
CodeClose == << "<", "/", "c", "o", "d", "e", ">" >>
AnchorHref == << "<", "a", " ", "h", "r", "e", "f", "=", "\"" >>
AnchorRel == << "n", "o", "o", "p", "e", "n", "e", "r" >>
AnchorAttrs == << "\"", " ", "t", "a", "r", "g", "e", "t", "=", "\"", "_", "b", "l", "a", "n", "k", "\"", " ", "r", "e", "l", "=", "\"" >> \o AnchorRel \o << "\"", ">" >>
AnchorClose == << "<", "/", "a", ">" >>

\* line || '<br>' (line 157)
Br == << "<", "b", "r", ">" >>

NoMatch == [end |-> 0, out |-> << >>]

\* the least of a non-empty set of positions
Least(S) == CHOOSE j \in S : \A k \in S : j <= k

\* /\*\*(.*?)\*\*/ tried at position i: two asterisks, the shortest run of
\* units other than line terminators, two asterisks
BoldAt(s, i) ==
    IF i + 1 <= Len(s) /\ s[i] = "*" /\ s[i + 1] = "*"
    THEN LET C == {j \in (i + 2)..(Len(s) - 1) :
                      /\ s[j] = "*" /\ s[j + 1] = "*"
                      /\ \A k \in (i + 2)..(j - 1) : s[k] \notin LineTerminators}
         IN  IF C = {} THEN NoMatch
             ELSE [end |-> Least(C) + 1,
                   out |-> StrongOpen \o SubSeq(s, i + 2, Least(C) - 1) \o StrongClose]
    ELSE NoMatch

\* /`([^`]+)`/ tried at position i: a backquote, the longest run of one or
\* more units other than the backquote, a backquote
CodeAt(s, i) ==
    IF i + 1 <= Len(s) /\ s[i] = Backquote /\ s[i + 1] # Backquote
    THEN LET C == {j \in (i + 2)..Len(s) : s[j] = Backquote}
         IN  IF C = {} THEN NoMatch
             ELSE [end |-> Least(C),
                   out |-> CodeOpen \o SubSeq(s, i + 1, Least(C) - 1) \o CodeClose]
    ELSE NoMatch

\* the text the link replacement puts for a label and a target (line 155)
Anchor(label, target) ==
    AnchorHref \o target \o AnchorAttrs \o label \o AnchorClose

\* /\[([^\]]+)\]\(([^)]+)\)/ tried at position i
LinkAt(s, i) ==
    IF i + 1 <= Len(s) /\ s[i] = "[" /\ s[i + 1] # "]"
    THEN LET C == {j \in (i + 2)..Len(s) : s[j] = "]"}
         IN  IF C = {} THEN NoMatch
             ELSE LET j == Least(C)
                  IN  IF j + 2 <= Len(s) /\ s[j + 1] = "(" /\ s[j + 2] # ")"
                      THEN LET D == {k \in (j + 3)..Len(s) : s[k] = ")"}
                           IN  IF D = {} THEN NoMatch
                               ELSE [end |-> Least(D),
                                     out |-> Anchor(SubSeq(s, i + 1, j - 1),
                                                    SubSeq(s, j + 2, Least(D) - 1))]
                      ELSE NoMatch
    ELSE NoMatch

MatchAt(pattern, s, i) ==
    CASE pattern = "bold" -> BoldAt(s, i)
      [] pattern = "code" -> CodeAt(s, i)
      [] pattern = "link" -> LinkAt(s, i)

RECURSIVE replaceFrom(_, _, _)
\* String.prototype.replace with a global pattern, from position i on: the
\* text up to the leftmost position with a match is copied, the match is
\* replaced, and the scan goes on behind the match
replaceFrom(pattern, s, i) ==
    LET starts == {j \in i..Len(s) : MatchAt(pattern, s, j).end # 0}
    IN  IF starts = {} THEN SubSeq(s, i, Len(s))
        ELSE LET m == MatchAt(pattern, s, Least(starts))
             IN  SubSeq(s, i, Least(starts) - 1) \o m.out
                   \o replaceFrom(pattern, s, m.end + 1)

replace(s, pattern) == replaceFrom(pattern, s, 1)

RECURSIVE split(_)
\* .split('\n')
split(s) ==
    LET C == {j \in 1..Len(s) : s[j] = "\n"}
    IN  IF C = {} THEN << s >>
        ELSE << SubSeq(s, 1, Least(C) - 1) >> \o split(SubSeq(s, Least(C) + 1, Len(s)))

\* the three replacements in the order of lines 153-155
Substituted(answer) == replace(replace(replace(answer, "bold"), "code"), "link")

\* mutant: the line itself as the block, without || '<br>'
BlocksWithoutBr(lines) == lines

\* .map((line, i) => <div ... __html: line || '<br>'>) (line 157)
Blocks(lines) == [i \in 1..Len(lines) |-> IF lines[i] = << >> THEN Br ELSE lines[i]]

formatAnswer(answer) == Blocks(split(Substituted(answer)))

(***************************************************************************)
(* The formatter on its own: one call of formatAnswer on an answer text.   *)
(***************************************************************************)
\* the pieces the generated answer texts are made of: the markers the
\* patterns look for, the newline and a letter
Pieces ==
    { << "*", "*" >>, << Backquote >>, << "[" >>, << "]", "(" >>, << ")" >>,
      << "\n" >>, << "a" >> }

RECURSIVE PiecesUpTo(_)
PiecesUpTo(n) ==
    IF n = 0 THEN { << >> }
    ELSE LET shorter == PiecesUpTo(n - 1)
         IN  shorter \cup {t \o c : t \in shorter, c \in Pieces}

\* markers inside markers, which take more pieces than MaxPieces
FormatSamples ==
    { << "[", "a", "]", "(", "a", ")" >>,
      << "s", "e", "e", " ", "[", "a", "]", "(", "a", ")", "\n" >>,
      << "u0060", "*", "*", "a", "*", "*", "u0060" >>,
      << "[", "u0060", "a", "u0060", "]", "(", "a", ")" >>,
      << "*", "*", "a", "u0060", "a", "*", "*", "a", "u0060" >>,
      << "[", "*", "*", "a", "*", "*", "]", "(", "a", ")" >>,
      << "*", "*", "[", "a", "]", "(", "a", ")", "*", "*" >>,
      << "a", "\n", "\n", "*", "*", "a", "*", "*", "\n", "u0060", "a", "u0060", "\n" >> }

\* the answer texts: the answers of the shipped faq and the fallback text,
\* every text of up to MaxPieces pieces, and the samples
FormatTexts == AnswerTexts \cup PiecesUpTo(MaxPieces) \cup FormatSamples

FormatInit ==
    /\ mounted = TRUE
    /\ open = FALSE
    /\ input = << >>
    /\ history = << >>
    /\ isTyping = FALSE
    /\ fullscreen = FALSE
    /\ bodyFullscreen = FALSE
    /\ scrollTop = 0
    /\ focusRequested = FALSE
    /\ timers = << >>
    /\ nextTimerId = 1
    /\ now = 0
    /\ staleCompletions = 0
    /\ lastOp = Op("mount", << >>)
    /\ mQuery = << >>
    /\ mKb = << >>
    /\ mResult = << >>
    /\ fAnswer \in FormatTexts
    /\ fBlocks = << >>

\* one call of formatAnswer; it returns one block at least, so that << >>
\* stands for the call not made yet
Format ==
    /\ fBlocks = << >>
    /\ fBlocks' = formatAnswer(fAnswer)
    /\ UNCHANGED << sessionVars, matcherVars, fAnswer >>

FormatNext == Format

FormatSpec == FormatInit /\ [][FormatNext]_vars

(***************************************************************************)
(* Properties of the formatter.                                            *)
(***************************************************************************)
\* the positions of the newlines of a text
NewlinesOf(s) == {j \in 1..Len(s) : s[j] = "\n"}

\* the position of the n-th newline of a text, 0 for n = 0 and one past the
\* end when the text has fewer newlines
NthNewline(s, n) ==
    IF n = 0 THEN 0
    ELSE IF n > Cardinality(NewlinesOf(s)) THEN Len(s) + 1
    ELSE CHOOSE j \in NewlinesOf(s) :
             Cardinality({k \in NewlinesOf(s) : k <= j}) = n

\* the n-th line of a text: what stands between two newlines that follow
\* each other
ClaimedLine(s, n) == SubSeq(s, NthNewline(s, n - 1) + 1, NthNewline(s, n) - 1)

\* C22: formatAnswer returns one block for each line of the answer text, as
\* many as it has newlines and one more; no replacement adds or removes a
\* newline; the blocks are the lines of the text after the replacements, in
\* their order, with '<br>' for an empty line, so that no block is empty.
C22_LineSplitting ==
    fBlocks # << >> =>
        /\ Len(fBlocks) = Cardinality(NewlinesOf(fAnswer)) + 1
        /\ Cardinality(NewlinesOf(replace(fAnswer, "bold")))
              = Cardinality(NewlinesOf(fAnswer))
        /\ Cardinality(NewlinesOf(replace(replace(fAnswer, "bold"), "code")))
              = Cardinality(NewlinesOf(fAnswer))
        /\ Cardinality(NewlinesOf(Substituted(fAnswer)))
              = Cardinality(NewlinesOf(fAnswer))
        /\ \A i \in 1..Len(fBlocks) :
              /\ fBlocks[i] # << >>
              /\ fBlocks[i] = IF ClaimedLine(Substituted(fAnswer), i) = << >>
                              THEN Br
                              ELSE ClaimedLine(Substituted(fAnswer), i)

\* C22 witness: the answer on the AI providers of the shipped faq, rendered
\* as nine blocks, two of them for its empty lines and three made of the code
\* span that runs over its last three lines.
C22_Witness ==
    /\ fAnswer = faqA5
    /\ Len(fBlocks) = 9
    /\ fBlocks[2] = Br /\ fBlocks[5] = Br
    /\ includes(fBlocks[7], CodeOpen) /\ includes(fBlocks[9], CodeClose)

RECURSIVE MatchSpans(_, _, _)
\* the spans << first, last >> a global pattern matches in a text, from
\* position i on
MatchSpans(pattern, s, i) ==
    LET starts == {j \in i..Len(s) : MatchAt(pattern, s, j).end # 0}
    IN  IF starts = {} THEN {}
        ELSE { << Least(starts), MatchAt(pattern, s, Least(starts)).end >> }
               \cup MatchSpans(pattern, s, MatchAt(pattern, s, Least(starts)).end + 1)

\* the spans at which one of the marker texts stands in a text
MarkerSpans(s, markers) ==
    UNION { { << j, j + Len(m) - 1 >> :
                j \in {k \in 1..(Len(s) - Len(m) + 1) : SubSeq(s, k, k + Len(m) - 1) = m} }
            : m \in markers }

Overlap(a, b) == a[1] <= b[2] /\ b[1] <= a[2]

\* a pattern applied to a text matches no span that holds one of the markers
MatchesClearOf(pattern, s, markers) ==
    \A a \in MatchSpans(pattern, s, 1) : \A b \in MarkerSpans(s, markers) :
        ~Overlap(a, b)

\* C23: the blocks are those of the bold, then the code, then the link
\* replacement, then the split; and for an answer that holds no marker text
\* itself, the code pattern matches nothing the bold replacement put in,
\* and the link pattern matches nothing the bold or the code replacement put
\* in.
C23_PipelineOrder ==
    (fBlocks # << >>
       /\ MarkerSpans(fAnswer, {StrongOpen, StrongClose, CodeOpen, CodeClose}) = {}) =>
        /\ fBlocks = Blocks(split(replace(replace(replace(fAnswer, "bold"), "code"), "link")))
        /\ MatchesClearOf("code", replace(fAnswer, "bold"), {StrongOpen, StrongClose})
        /\ MatchesClearOf("link", replace(replace(fAnswer, "bold"), "code"),
                          {StrongOpen, StrongClose, CodeOpen, CodeClose})

RECURSIVE ShownText(_)
\* the text the blocks show, line after line ('<br>' shows an empty line)
ShownText(blocks) ==
    IF Len(blocks) = 0 THEN << >>
    ELSE (IF Head(blocks) = Br THEN << >> ELSE Head(blocks))
           \o (IF Len(blocks) = 1 THEN << >> ELSE << "\n" >> \o ShownText(Tail(blocks)))

\* the rel attribute of a link with no-opener and no-referrer semantics
ClaimedRels ==
    { << "n", "o", "o", "p", "e", "n", "e", "r", " ", "n", "o", "r", "e", "f", "e", "r", "r", "e", "r" >>,
      << "n", "o", "r", "e", "f", "e", "r", "r", "e", "r", " ", "n", "o", "o", "p", "e", "n", "e", "r" >> }

\* the link element claimed for a label and a target
ClaimedAnchor(label, target, rel) ==
    << "<", "a", " ", "h", "r", "e", "f", "=", "\"" >> \o target \o << "\"", " ", "t", "a", "r", "g", "e", "t", "=", "\"", "_", "b", "l", "a", "n", "k", "\"", " ", "r", "e", "l", "=", "\"" >> \o rel \o << "\"", ">" >> \o label \o << "<", "/", "a", ">" >>

\* C24: every [label](target) span the link pattern finds in an answer is
\* shown as a link element with the text label and the destination target,
\* opened in a new context (target="_blank") and with a rel attribute that
\* holds both noopener and noreferrer.
C24_LinkRendering ==
    fBlocks # << >> =>
        LET s == replace(replace(fAnswer, "bold"), "code")
        IN  \A a \in MatchSpans("link", s, 1) :
              LET j == Least({k \in a[1]..a[2] : s[k] = "]"})
              IN  \E rel \in ClaimedRels :
                    includes(ShownText(fBlocks),
                             ClaimedAnchor(SubSeq(s, a[1] + 1, j - 1),
                                           SubSeq(s, j + 2, a[2] - 1), rel))

(***************************************************************************)
(* Further properties of the matcher.                                      *)
(***************************************************************************)
\* C25: no entry scores exactly 1, so that at the end of the loop the test
\* bestScore > 1 holds exactly when some entry scored above 0, which is
\* exactly when bestMatch is not null; the answer returned is then that of
\* bestMatch, and the fallback text otherwise.
C25_ScoreNeverOne ==
    mResult # << >> =>
        LET q == toLowerCase(mQuery)
            best == ScanItems(q, mKb, 1, 0, 0)
        IN  /\ \A i \in 1..Len(mKb) : ItemScore(q, mKb[i]) # 1
            /\ (best.bestScore > 1) <=> (\E i \in 1..Len(mKb) : ItemScore(q, mKb[i]) > 0)
            /\ (best.bestScore > 1) <=> (best.bestMatch # 0)
            /\ mResult[1] = IF best.bestMatch # 0 THEN mKb[best.bestMatch].a
                            ELSE fallbackAnswer

\* C25 witness: an entry selected with the score 2, the least score above 0,
\* which a single short keyword gives.
C25_Witness ==
    /\ mResult # << >> /\ mResult[1] # fallbackAnswer
    /\ ScanItems(toLowerCase(mQuery), mKb, 1, 0, 0).bestScore = 2

\* C26: on the shipped faq the question of an entry, asked as it is written,
\* is answered with the answer of that entry, every other entry scoring
\* less; each question of the shortcuts is the question of an entry and so
\* gets the answer of that entry, not the fallback text nor another answer.
C26_CanonicalQuestions ==
    (mResult # << >> /\ mKb = faq) =>
        /\ \A k \in 1..Len(faq) :
              mQuery = faq[k].q =>
                 /\ mResult[1] = faq[k].a
                 /\ mResult[1] # fallbackAnswer
                 /\ \A j \in 1..Len(faq) \ {k} :
                       /\ ItemScore(toLowerCase(mQuery), faq[j])
                            < ItemScore(toLowerCase(mQuery), faq[k])
                       /\ faq[j].a # faq[k].a
        /\ \A n \in 1..Len(quickActions) :
              /\ \E k \in 1..Len(faq) : faq[k].q = quickActions[n]
              /\ mQuery = quickActions[n] =>
                    \E k \in 1..Len(faq) :
                        faq[k].q = quickActions[n] /\ mResult[1] = faq[k].a

\* C26 witness: the third shortcut, the question of the fourth entry, has
\* been answered with the answer of that entry.
C26_Witness ==
    /\ mKb = faq /\ mQuery = quickActions[3] /\ mQuery = faq[4].q
    /\ mResult = << faq[4].a >>

====
